---- MODULE Spec2Model ----
(***************************************************************************)
(* A model of src/src/headers.rs: HeaderName (case-insensitive comparison, *)
(* ordering and hashing), the Headers map built on BTreeMap, and the       *)
(* header-folding bulk constructor from_headers_ref.                       *)
(*                                                                         *)
(* Strings are sequences of byte values (u8).  A Headers value is the      *)
(* sequence of its BTreeMap entries in the order the tree stores them.     *)
(***************************************************************************)
EXTENDS Integers, Sequences, FiniteSets, TLC

VARIABLES headers, call

vars == <<headers, call>>

(***************************************************************************)
(* Bounds of the model.                                                    *)
(***************************************************************************)
\* most entries a Headers map holds in the model
MaxEntries == 2
\* longest stored value the model lets append build
MaxValLen == 4
\* longest raw value handed to the folding loop on its own
MaxRawLen == 6
\* most raw headers in a list handed to from_headers_ref
MaxHeaders == 2
\* most raw value bytes, over all headers, in such a list
MaxListBytes == 3

(***************************************************************************)
(* Bytes.                                                                  *)
(***************************************************************************)
CR == 13
LF == 10
SP == 32
TAB == 9

\* 'A', 'B', 'a': one letter in both cases, and an upper-case letter whose
\* byte is below 'a' while its lower-case form is above it.
NameBytes == {65, 66, 97}

SeqsUpTo(S, n) == UNION {[1..k -> S] : k \in 0..n}

\* the names the operations are called with: "", "A", "a", "B", "AA", "AB",
\* "aB": the empty name, two casings of one name, names that extend another,
\* and two names that extend the same one
HeaderNames ==
    {<<>>, <<65>>, <<97>>, <<66>>, <<65, 65>>, <<65, 66>>, <<97, 66>>}

\* u8::make_ascii_lowercase
make_ascii_lowercase(b) == IF b >= 65 /\ b <= 90 THEN b + 32 ELSE b

Min(a, b) == IF a <= b THEN a ELSE b

\* Ord::cmp of two integers (u8, usize)
int_cmp(a, b) == IF a < b THEN "Less" ELSE IF a = b THEN "Equal" ELSE "Greater"

(***************************************************************************)
(* HeaderName                                                              *)
(***************************************************************************)
RECURSIVE cmp_loop(_, _, _)
\* the for loop of cmp over zip(s, o), from pair i on; s and o are the slices
\* truncated to the shared length, and they are what the last line measures
cmp_loop(s, o, i) ==
    IF i > Len(s)
    THEN int_cmp(Len(s), Len(o))
    ELSE LET sb == make_ascii_lowercase(s[i])
             ob == make_ascii_lowercase(o[i])
         IN  IF int_cmp(sb, ob) = "Equal"
             THEN cmp_loop(s, o, i + 1)
             ELSE int_cmp(sb, ob)

RECURSIVE cmp_raw_loop(_, _, _)
cmp_raw_loop(s, o, i) ==
    IF i > Len(s)
    THEN int_cmp(Len(s), Len(o))
    ELSE IF int_cmp(s[i], o[i]) = "Equal"
         THEN cmp_raw_loop(s, o, i + 1)
         ELSE int_cmp(s[i], o[i])

\* cmp with the two make_ascii_lowercase calls left out
cmp_no_lowercase(self, other) ==
    LET len == Min(Len(self), Len(other))
    IN  cmp_raw_loop(SubSeq(self, 1, len), SubSeq(other, 1, len), 1)

\* impl Ord for HeaderName: cmp
cmp(self, other) ==
    LET len == Min(Len(self), Len(other))
        s == SubSeq(self, 1, len)
        o == SubSeq(other, 1, len)
    IN  cmp_loop(s, o, 1)

\* impl PartialOrd for HeaderName
partial_cmp(self, other) == cmp(self, other)

\* impl PartialEq<str> for HeaderName: eq
eq_str(self, other) ==
    IF Len(self) # Len(other)
    THEN FALSE
    ELSE \A i \in 1..Len(self) :
             make_ascii_lowercase(self[i]) = make_ascii_lowercase(other[i])

\* impl PartialEq for HeaderName: eq
eq(self, other) == eq_str(self, other)

\* impl Hash for HeaderName: the bytes written to the hasher h, in order
hash(self, h) == h \o self

(***************************************************************************)
(* Specification of the HeaderName operations: Init draws two names, the   *)
(* actions apply cmp, eq and hash to them.                                 *)
(***************************************************************************)
InitName ==
    /\ headers = <<>>
    /\ \E a \in HeaderNames, b \in HeaderNames :
           call = [op |-> "names", a |-> a, b |-> b]

CmpCall ==
    /\ call.op = "names"
    /\ call' = [op |-> "cmp", a |-> call.a, b |-> call.b,
                ret |-> cmp(call.a, call.b)]
    /\ UNCHANGED headers

EqCall ==
    /\ call.op = "names"
    /\ call' = [op |-> "eq", a |-> call.a, b |-> call.b,
                ret |-> eq(call.a, call.b)]
    /\ UNCHANGED headers

HashCall ==
    /\ call.op = "names"
    /\ call' = [op |-> "hash", a |-> call.a, b |-> call.b,
                ret |-> <<hash(call.a, <<>>), hash(call.b, <<>>)>>]
    /\ UNCHANGED headers

NextName == CmpCall \/ EqCall \/ HashCall

SpecName == InitName /\ [][NextName]_vars

(***************************************************************************)
(* Headers: BTreeMap<HeaderName, HeaderValue>.  A map of at most eleven    *)
(* entries is one leaf node of the tree: its keys in stored order, searched*)
(* from the left with key.cmp(stored key): Greater moves on, Equal is a    *)
(* hit, Less is the place a new key goes.                                  *)
(***************************************************************************)
\* ", " as pushed by append
CommaSpace == <<44, 32>>

\* the values passed to insert and append: "x" and "y"
ValueInputs == {<<120>>, <<121>>}

RECURSIVE search_from(_, _, _)
search_from(m, key, i) ==
    IF i > Len(m)
    THEN [found |-> FALSE, idx |-> i]
    ELSE LET ord == cmp(key, m[i].name)
         IN  IF ord = "Greater" THEN search_from(m, key, i + 1)
             ELSE IF ord = "Equal" THEN [found |-> TRUE, idx |-> i]
             ELSE [found |-> FALSE, idx |-> i]

\* the tree's search for a key
search(m, key) == search_from(m, key, 1)

\* a new entry put at position i
InsertAt(m, i, e) == SubSeq(m, 1, i - 1) \o <<e>> \o SubSeq(m, i, Len(m))

\* the entry at position i taken out
RemoveAt(m, i) == SubSeq(m, 1, i - 1) \o SubSeq(m, i + 1, Len(m))

\* Headers::new
new == <<>>

\* Headers::insert: BTreeMap::insert keeps the stored key of an entry it
\* finds and replaces its value
insert(m, name, value) ==
    LET r == search(m, name)
    IN  IF r.found
        THEN [m EXCEPT ![r.idx].value = value]
        ELSE InsertAt(m, r.idx, [name |-> name, value |-> value])

\* Headers::remove
remove(m, name) ==
    LET r == search(m, name)
    IN  IF r.found THEN RemoveAt(m, r.idx) ELSE m

\* append that puts a new entry in front of the one it finds
append_adds_entry(m, name, value) ==
    LET r == search(m, name)
    IN  InsertAt(m, r.idx, [name |-> name, value |-> value])

\* Headers::append: entry(name).and_modify(push ", " and value).or_insert(value)
append(m, name, value) ==
    LET r == search(m, name)
    IN  IF r.found
        THEN [m EXCEPT ![r.idx].value = @ \o CommaSpace \o value]
        ELSE InsertAt(m, r.idx, [name |-> name, value |-> value])

\* Headers::get: Some(value) or None
get(m, name) ==
    LET r == search(m, name)
    IN  IF r.found THEN [some |-> TRUE, value |-> m[r.idx].value]
        ELSE [some |-> FALSE]

\* Headers::get_mut: the same lookup, handing out the value mutably
get_mut(m, name) == get(m, name)

\* Headers::iter: the (name, value) pairs in stored order
iter(m) == [i \in 1..Len(m) |-> <<m[i].name, m[i].value>>]

\* Headers::names
names(m) == [i \in 1..Len(m) |-> m[i].name]

\* Headers::values
values(m) == [i \in 1..Len(m) |-> m[i].value]

(***************************************************************************)
(* Specification of the Headers map: created empty, then any sequence of   *)
(* its operations.  call records the last operation, the map it was called *)
(* on and what it returned.                                                *)
(***************************************************************************)
Init ==
    /\ headers = new
    /\ call = [op |-> "new"]

WithinBounds(m) ==
    /\ Len(m) <= MaxEntries
    /\ \A i \in 1..Len(m) : Len(m[i].value) <= MaxValLen

InsertCall(name, value) ==
    /\ WithinBounds(insert(headers, name, value))
    /\ headers' = insert(headers, name, value)
    /\ call' = [op |-> "insert", name |-> name, value |-> value, pre |-> headers]

RemoveCall(name) ==
    /\ headers' = remove(headers, name)
    /\ call' = [op |-> "remove", name |-> name, pre |-> headers]

AppendCall(name, value) ==
    /\ WithinBounds(append(headers, name, value))
    /\ headers' = append(headers, name, value)
    /\ call' = [op |-> "append", name |-> name, value |-> value, pre |-> headers]

GetCall(name) ==
    /\ call' = [op |-> "get", name |-> name, pre |-> headers,
                ret |-> get(headers, name)]
    /\ UNCHANGED headers

GetMutCall(name) ==
    /\ call' = [op |-> "get_mut", name |-> name, pre |-> headers,
                ret |-> get_mut(headers, name)]
    /\ UNCHANGED headers

IterCall ==
    /\ call' = [op |-> "iter", pre |-> headers, ret |-> iter(headers)]
    /\ UNCHANGED headers

NamesCall ==
    /\ call' = [op |-> "names", pre |-> headers, ret |-> names(headers)]
    /\ UNCHANGED headers

ValuesCall ==
    /\ call' = [op |-> "values", pre |-> headers, ret |-> values(headers)]
    /\ UNCHANGED headers

Next ==
    \/ \E name \in HeaderNames, value \in ValueInputs : InsertCall(name, value)
    \/ \E name \in HeaderNames : RemoveCall(name)
    \/ \E name \in HeaderNames, value \in ValueInputs : AppendCall(name, value)
    \/ \E name \in HeaderNames : GetCall(name)
    \/ \E name \in HeaderNames : GetMutCall(name)
    \/ IterCall
    \/ NamesCall
    \/ ValuesCall

Spec == Init /\ [][Next]_vars

(***************************************************************************)
(* Headers::from_headers_ref: the folding loop over each raw value, then   *)
(* append of the name and the folded value.  The raw names are ASCII and   *)
(* the raw values ASCII bytes, so neither expect() fails.                  *)
(***************************************************************************)
\* the bytes of raw values: CR, LF, space, tab and 'x'
RawBytes == {CR, LF, SP, TAB, 120}

\* the names of raw headers: "A", "a", "AB"
RawNames == {<<65>>, <<97>>, <<65, 66>>}

\* raw_value.starts_with(b"\r\n")
starts_with_crlf(raw_value) ==
    Len(raw_value) >= 2 /\ raw_value[1] = CR /\ raw_value[2] = LF

\* the positions of raw_value holding a byte that is not a space or a tab
NonSpacePositions(raw_value) ==
    {i \in 1..Len(raw_value) : raw_value[i] # SP /\ raw_value[i] # TAB}

\* raw_value.split_at(n).1
split_at_1(raw_value, n) == SubSeq(raw_value, n + 1, Len(raw_value))

RECURSIVE fold_loop_trailing_space(_, _)
\* the folding loop pushing its space before it looks for a following byte
fold_loop_trailing_space(raw_value, value) ==
    IF raw_value = <<>>
    THEN value
    ELSE IF starts_with_crlf(raw_value)
         THEN LET rest == split_at_1(raw_value, 2)
                  found == NonSpacePositions(rest)
              IN  IF found # {}
                  THEN LET non_space_pos ==
                               (CHOOSE i \in found : \A j \in found : i <= j) - 1
                       IN  fold_loop_trailing_space(
                               split_at_1(rest, non_space_pos), Append(value, SP))
                  ELSE fold_loop_trailing_space(<<>>, Append(value, SP))
         ELSE fold_loop_trailing_space(split_at_1(raw_value, 1),
                                       Append(value, raw_value[1]))

RECURSIVE fold_loop_needs_whitespace(_, _)
\* the folding loop taking CRLF for a fold only when a space or tab follows
fold_loop_needs_whitespace(raw_value, value) ==
    IF raw_value = <<>>
    THEN value
    ELSE IF /\ starts_with_crlf(raw_value)
            /\ Len(raw_value) >= 3
            /\ raw_value[3] \in {SP, TAB}
         THEN LET rest == split_at_1(raw_value, 2)
                  found == NonSpacePositions(rest)
              IN  IF found # {}
                  THEN LET non_space_pos ==
                               (CHOOSE i \in found : \A j \in found : i <= j) - 1
                       IN  fold_loop_needs_whitespace(
                               split_at_1(rest, non_space_pos), Append(value, SP))
                  ELSE fold_loop_needs_whitespace(<<>>, value)
         ELSE fold_loop_needs_whitespace(split_at_1(raw_value, 1),
                                         Append(value, raw_value[1]))

RECURSIVE fold_loop(_, _)
\* while !raw_value.is_empty() { ... }: what is left of the raw value, and
\* the value built so far
fold_loop(raw_value, value) ==
    IF raw_value = <<>>
    THEN value
    ELSE IF starts_with_crlf(raw_value)
         THEN LET rest == split_at_1(raw_value, 2)
                  found == NonSpacePositions(rest)
              IN  IF found # {}
                  THEN LET non_space_pos ==
                               (CHOOSE i \in found : \A j \in found : i <= j) - 1
                       IN  fold_loop(split_at_1(rest, non_space_pos),
                                     Append(value, SP))
                  ELSE fold_loop(<<>>, value)
         ELSE fold_loop(split_at_1(raw_value, 1), Append(value, raw_value[1]))

RECURSIVE from_headers_loop(_, _, _)
\* for header in headers.iter() { ... owned_headers.append(name, value) }
from_headers_loop(hs, i, owned_headers) ==
    IF i > Len(hs)
    THEN owned_headers
    ELSE from_headers_loop(hs, i + 1,
             append(owned_headers, hs[i].name, fold_loop(hs[i].value, <<>>)))

\* Headers::from_headers_ref
from_headers_ref(hs) == from_headers_loop(hs, 1, new)

(***************************************************************************)
(* Specification of bulk ingestion: Init draws a list of raw headers, the  *)
(* action builds the Headers map from it.  A list of one header carries a  *)
(* value of up to MaxRawLen bytes; a longer list up to MaxListBytes bytes  *)
(* of values in all.                                                       *)
(***************************************************************************)
\* the list of k headers with the names ns whose values are the pieces of
\* bytes between the cuts
RawList(k, ns, bytes, cuts) ==
    [i \in 1..k |->
        [name |-> ns[i],
         value |-> SubSeq(bytes,
                          (IF i = 1 THEN 0 ELSE cuts[i - 1]) + 1,
                          IF i = k THEN Len(bytes) ELSE cuts[i])]]

InitIngest ==
    /\ headers = <<>>
    /\ \E k \in 0..MaxHeaders :
         \E ns \in [1..k -> RawNames] :
           \E bytes \in SeqsUpTo(RawBytes, IF k = 1 THEN MaxRawLen
                                           ELSE IF k = 0 THEN 0
                                           ELSE MaxListBytes) :
             \E cuts \in [1..(k - 1) -> 0..Len(bytes)] :
                /\ \A i \in 1..(k - 2) : cuts[i] <= cuts[i + 1]
                /\ call = [op |-> "raw", raw |-> RawList(k, ns, bytes, cuts)]

FromHeadersRefCall ==
    /\ call.op = "raw"
    /\ headers' = from_headers_ref(call.raw)
    /\ call' = [op |-> "from_headers_ref", raw |-> call.raw]

NextIngest == FromHeadersRefCall

SpecIngest == InitIngest /\ [][NextIngest]_vars

(***************************************************************************)
(* Reference notions the statements below are phrased in.                  *)
(***************************************************************************)
\* a name with every byte ASCII-lowercased
Lowered(n) == [i \in 1..Len(n) |-> make_ascii_lowercase(n[i])]

\* case-insensitive equality of names
SameName(a, b) == Lowered(a) = Lowered(b)

\* a is a proper prefix of b, case-insensitively
ProperPrefix(a, b) ==
    /\ Len(a) < Len(b)
    /\ Lowered(a) = SubSeq(Lowered(b), 1, Len(a))

\* strict lexicographic order of byte sequences, a proper prefix first
LexLess(x, y) ==
    \/ /\ Len(x) < Len(y)
       /\ x = SubSeq(y, 1, Len(x))
    \/ \E i \in 1..Min(Len(x), Len(y)) :
           /\ SubSeq(x, 1, i - 1) = SubSeq(y, 1, i - 1)
           /\ x[i] < y[i]

\* the case-insensitive lexicographic ordering of two names
CaseInsensitiveOrder(a, b) ==
    IF Lowered(a) = Lowered(b) THEN "Equal"
    ELSE IF LexLess(Lowered(a), Lowered(b)) THEN "Less"
    ELSE "Greater"

\* C1: for all names a and b, cmp(a, b) is the case-insensitive
\* lexicographic order, the shorter name first on a shared prefix: a proper
\* prefix compares Less, and Equal is returned only for names of one length.
C1_CmpIsCaseInsensitiveLexOrder ==
    call.op = "cmp" =>
        /\ call.ret = CaseInsensitiveOrder(call.a, call.b)
        /\ (ProperPrefix(call.a, call.b) => call.ret = "Less")
        /\ (call.ret = "Equal" => Len(call.a) = Len(call.b))

\* C2: names that differ only in letter case (equal under eq) feed the same
\* byte sequence to the hasher.
C2_EqualNamesHashIdentically ==
    (call.op = "hash" /\ eq(call.a, call.b)) => call.ret[1] = call.ret[2]

(***************************************************************************)
(* Statements about the Headers map.                                       *)
(***************************************************************************)
\* the map holds an entry whose name equals n case-insensitively
Present(m, n) == \E i \in 1..Len(m) : SameName(m[i].name, n)

\* the position of such an entry
PositionOf(m, n) == CHOOSE i \in 1..Len(m) : SameName(m[i].name, n)

\* what a case-insensitive lookup of n returns
Lookup(m, n) ==
    IF Present(m, n)
    THEN [some |-> TRUE, value |-> m[PositionOf(m, n)].value]
    ELSE [some |-> FALSE]

\* C3: get(n) and get_mut(n) return the stored value exactly when the map
\* holds an entry whose name equals n case-insensitively, and nothing when
\* there is none, also when only prefixes or extensions of n are present.
C3_GetIsCaseInsensitiveLookup ==
    call.op \in {"get", "get_mut"} => call.ret = Lookup(call.pre, call.name)

\* C4: in every map reached from the empty one by insert, append and remove
\* no two stored names are equal after ASCII-lowercasing; append on a name
\* that is present creates no second entry.
C4_OneEntryPerName ==
    \A i \in 1..Len(headers), j \in 1..Len(headers) :
        i # j => ~SameName(headers[i].name, headers[j].name)

\* an append was called with another casing of a name the map held, and
\* the map still holds one entry for it
C4_Witness ==
    /\ call.op = "append"
    /\ \E i \in 1..Len(call.pre) :
           /\ SameName(call.pre[i].name, call.name)
           /\ call.pre[i].name # call.name
    /\ Len(headers) = Len(call.pre)
    /\ Len(headers) = 2

\* C5: append(n, v) on a map without n gives exactly the map insert(n, v)
\* gives; on a map holding n with value old, the value becomes old, ", ", v
\* and nothing else changes.
C5_AppendInsertsOrMerges ==
    call.op = "append" =>
        IF Present(call.pre, call.name)
        THEN headers = [call.pre EXCEPT ![PositionOf(call.pre, call.name)].value =
                            @ \o CommaSpace \o call.value]
        ELSE headers = insert(call.pre, call.name, call.value)

\* C8: remove(n) on a map without an entry named n (case-insensitively)
\* leaves the map unchanged; otherwise it deletes that entry and leaves
\* every other entry unchanged.
C8_RemoveOnlyTheNamedEntry ==
    call.op = "remove" =>
        IF Present(call.pre, call.name)
        THEN headers = RemoveAt(call.pre, PositionOf(call.pre, call.name))
        ELSE headers = call.pre

\* a sequence of names in strictly ascending case-insensitive order
Ascending(ns) ==
    \A i \in 1..Len(ns), j \in 1..Len(ns) :
        i < j => CaseInsensitiveOrder(ns[i], ns[j]) = "Less"

\* the entries of a map as a set
Entries(m) == {m[i] : i \in 1..Len(m)}

\* C9: iter(), names() and values() yield the entries of the map in
\* strictly ascending case-insensitive name order, whatever the order of
\* insertion and the casing, and all three in the same order.
C9_IterationAscending ==
    /\ call.op = "iter" =>
           /\ Len(call.ret) = Cardinality(Entries(call.pre))
           /\ \A i \in 1..Len(call.ret) :
                  [name |-> call.ret[i][1], value |-> call.ret[i][2]]
                      \in Entries(call.pre)
           /\ Ascending([i \in 1..Len(call.ret) |-> call.ret[i][1]])
    /\ call.op = "names" =>
           /\ Len(call.ret) = Cardinality(Entries(call.pre))
           /\ \A i \in 1..Len(call.ret) :
                  \E e \in Entries(call.pre) : e.name = call.ret[i]
           /\ Ascending(call.ret)
    /\ call.op = "values" =>
           /\ Len(call.ret) = Cardinality(Entries(call.pre))
           /\ \E ns \in [1..Len(call.ret) -> {e.name : e \in Entries(call.pre)}] :
                  /\ Ascending(ns)
                  /\ \A i \in 1..Len(call.ret) :
                         [name |-> ns[i], value |-> call.ret[i]]
                             \in Entries(call.pre)

\* names() on a map of two entries yields a lower-case name before an
\* upper-case one whose byte is smaller
C9_Witness ==
    /\ call.op = "names"
    /\ Len(call.ret) = 2
    /\ call.ret[1] = <<97>>
    /\ call.ret[2] = <<66>>

(***************************************************************************)
(* Statements about folding and bulk ingestion.                            *)
(***************************************************************************)
\* byte i of raw starts a CRLF
IsFoldStart(raw, i) == i < Len(raw) /\ raw[i] = CR /\ raw[i + 1] = LF

\* the fold starting at byte k, with every space and tab after its CRLF,
\* runs to the end of raw
ReachesEnd(raw, k) == \A j \in (k + 2)..Len(raw) : raw[j] \in {SP, TAB}

\* byte i of raw is the LF of a CRLF or one of the spaces and tabs right
\* after one
InsideFold(raw, i) ==
    \E k \in 1..(i - 1) :
        /\ IsFoldStart(raw, k)
        /\ \A j \in (k + 2)..i : raw[j] \in {SP, TAB}

\* what the normalized value holds in place of byte i of raw
Emitted(raw, i) ==
    IF IsFoldStart(raw, i)
    THEN IF ReachesEnd(raw, i) THEN <<>> ELSE <<SP>>
    ELSE IF InsideFold(raw, i) THEN <<>> ELSE <<raw[i]>>

RECURSIVE NormalizedUpTo(_, _)
NormalizedUpTo(raw, i) ==
    IF i = 0 THEN <<>> ELSE NormalizedUpTo(raw, i - 1) \o Emitted(raw, i)

\* the folding-normalized form of a raw value
Normalized(raw) == NormalizedUpTo(raw, Len(raw))

\* C7: the folding loop turns every CRLF together with the spaces and tabs
\* right after it into one space, or into nothing when that run reaches the
\* end of the input, and copies every other byte (a CR without LF and a
\* lone LF too) unchanged.
C7_FoldingNormalizes ==
    (call.op = "from_headers_ref" /\ Len(call.raw) = 1) =>
        headers = <<[name |-> call.raw[1].name,
                     value |-> Normalized(call.raw[1].value)]>>

\* "x\r\n\t x" was ingested and is stored as "x x"
C7_Witness ==
    /\ call.op = "from_headers_ref"
    /\ Len(call.raw) = 1
    /\ call.raw[1].value = <<120, CR, LF, TAB, SP, 120>>
    /\ headers[1].value = <<120, SP, 120>>

\* the raw headers of a list whose name equals n case-insensitively
Occurrences(raw, n) == SelectSeq(raw, LAMBDA h : SameName(h.name, n))

RECURSIVE JoinedUpTo(_, _)
\* the normalized values of the first i headers of hs, joined by ", "
JoinedUpTo(hs, i) ==
    IF i = 1 THEN Normalized(hs[1].value)
    ELSE JoinedUpTo(hs, i - 1) \o CommaSpace \o Normalized(hs[i].value)

\* C6: from_headers_ref yields exactly one entry per distinct
\* case-insensitive name of the list, holding the normalized values of all
\* occurrences of that name, in list order, joined by ", "; names that are
\* not case-insensitively equal stay separate entries.
C6_IngestionMergesPerName ==
    call.op = "from_headers_ref" =>
        /\ \A i \in 1..Len(call.raw) :
               Cardinality({j \in 1..Len(headers) :
                   SameName(headers[j].name, call.raw[i].name)}) = 1
        /\ \A j \in 1..Len(headers) :
               LET occ == Occurrences(call.raw, headers[j].name)
               IN  /\ occ # <<>>
                   /\ headers[j].value = JoinedUpTo(occ, Len(occ))

\* a value holds CR directly followed by LF
HasCRLF(v) == \E i \in 1..(Len(v) - 1) : v[i] = CR /\ v[i + 1] = LF

\* C10: no value stored by from_headers_ref, merged by append or not,
\* holds the two bytes CRLF; a lone CR or a lone LF can remain.
C10_NoCRLFStored ==
    call.op = "from_headers_ref" =>
        \A j \in 1..Len(headers) : ~HasCRLF(headers[j].value)

\* the raw values "\r" and "\n" of one name were merged into one stored
\* value, which holds both bytes
C10_Witness ==
    /\ call.op = "from_headers_ref"
    /\ Len(call.raw) = 2
    /\ Len(headers) = 1
    /\ call.raw[1].value = <<CR>>
    /\ call.raw[2].value = <<LF>>
    /\ headers[1].value = <<CR, 44, 32, LF>>

====
